---- MODULE Spec2Model ----
(***************************************************************************)
(* Model of the gee-media-service-api claim lifecycle, rate limiter, image  *)
(* upload pipeline, video direct upload and Mux webhook reconciliation.     *)
(* Time is counted in whole days: a claim lives 24 hours = 1 day and the    *)
(* rate-limit window is periodDays days.                                    *)
(***************************************************************************)
EXTENDS Integers, Sequences, FiniteSets, TLC

\* ------------------------------------------------------------------ bounds
MaxTime == 2
MaxClaims == 3
FlowClaims == 1
MaxAssets == 1
MaxFolders == 2
NumResolutions == 1
MaxStatsLen == 3
MaxMuxJobs == 2
MaxMuxId == 1
MaxTextLen == 4
MaxMessages == 3
MaxRequests == 2
MaxLabels == 2
MaxCalls == 2

\* ----------------------------------------------------------- configuration
Users == {"u1", "u2"}
ClaimIds == 1..MaxClaims
AssetIds == 1..MaxAssets
Resolutions == 1..NumResolutions

\* config.media.uploadProfiles / config.videoProfiles (names only). The
\* default configuration lists profile_picture alone under uploadProfiles;
\* user_video stands for a video profile a deployment lists there as well
\* (UploadProfile.type), without rate limit or image constraints, so that
\* claims for video uploads can be created
UploadProfileNames == {"profile_picture", "user_video"}
VideoProfileNames == {"user_video"}
AllProfileNames == UploadProfileNames \cup {"no_such_profile"}

\* rateLimit of the profile: maxUploads uploads per periodDays days
RateLimitMaxUploads == 2
RateLimitPeriodDays == 2
RateLimitedProfiles == {"profile_picture"}

\* expiresAt.setHours(getHours() + 24): one day
ClaimLifetimeDays == 1

\* constraints of profile_picture
AspectNum == 1
AspectDenom == 1
AllowedDeviationPermille == 75
MinWidth == 100
MinHeight == 100

NoProfile == [name |-> "none", hasRateLimit |-> FALSE, maxUploads |-> 0,
              periodDays |-> 0, hasAspect |-> FALSE]

getUploadProfile(profileName) ==
  IF profileName \in UploadProfileNames
  THEN [name |-> profileName,
        hasRateLimit |-> profileName \in RateLimitedProfiles,
        maxUploads |-> RateLimitMaxUploads,
        periodDays |-> RateLimitPeriodDays,
        hasAspect |-> profileName = "profile_picture"]
  ELSE NoProfile

\* ------------------------------------------------------------ claim status
ClaimStatus == {"pending", "processing", "uploaded", "failed",
                "moderation_rejected", "ready"}

\* an allow-list that also admits the failure of the video provider
retryableWithVideoFailure ==
  {"File processing error.", "Server error during processing.",
   "Content moderation failed", "Video processing failed"}

\* an allow-list without the moderation failure
retryableWithoutModeration ==
  {"File processing error.", "Server error during processing."}

retryableFailureReasons ==
  {"File processing error.", "Server error during processing.",
   "Content moderation failed"}

NoValue == "none"
NoUrl == [kind |-> "none", id |-> 0, name |-> 0]
NoMeta == [kind |-> "none", id |-> 0]

VARIABLES now, claims, stats, up, blobs, imageAssets, assets, muxJobs, mt, ev,
          rq, evh, usc, tsu, statDocs, mi, last

vars == <<now, claims, stats, up, blobs, imageAssets, assets, muxJobs, mt, ev,
          rq, evh, usc, tsu, statDocs, mi, last>>

\* a stored UploadClaim document, or the absent slot of an unused claim id
NoClaim == [exists |-> FALSE, claimRequestorUserId |-> NoValue,
            uploadProfile |-> NoValue, status |-> NoValue, reason |-> NoValue,
            fileUrl |-> NoUrl, moderationMessage |-> NoValue,
            fileMetadata |-> NoMeta, expiresAt |-> 0]

\* a UserUploadStats document, or its absence
NoStats == [exists |-> FALSE, uploadDates |-> <<>>]

\* ---------------------------------------------------------- rate limiter
RECURSIVE CountAfter(_, _)
CountAfter(dates, cutoff) ==
  IF dates = <<>> THEN 0
  ELSE (IF Head(dates) > cutoff THEN 1 ELSE 0) + CountAfter(Tail(dates), cutoff)

\* a limiter that applies the limit to every known profile, configured or not
hasReachedRateLimitEveryProfile(st, t, userId, profileName) ==
  LET uploadProfile == getUploadProfile(profileName) IN
  IF uploadProfile.name = "none" THEN FALSE
  ELSE LET cutoffDate == t - RateLimitPeriodDays
           userStats == st[userId][profileName]
       IN IF ~userStats.exists THEN FALSE
          ELSE CountAfter(userStats.uploadDates, cutoffDate) >= RateLimitMaxUploads

\* a limiter that admits one upload too many: the window count must exceed
\* maxUploads
hasReachedRateLimitOffByOne(st, t, userId, profileName) ==
  LET uploadProfile == getUploadProfile(profileName) IN
  IF uploadProfile.name = "none" \/ ~uploadProfile.hasRateLimit THEN FALSE
  ELSE LET cutoffDate == t - uploadProfile.periodDays
           userStats == st[userId][profileName]
       IN IF ~userStats.exists THEN FALSE
          ELSE CountAfter(userStats.uploadDates, cutoffDate) > uploadProfile.maxUploads

hasReachedRateLimit(st, t, userId, profileName) ==
  LET uploadProfile == getUploadProfile(profileName) IN
  IF uploadProfile.name = "none" \/ ~uploadProfile.hasRateLimit THEN FALSE
  ELSE LET cutoffDate == t - uploadProfile.periodDays
           userStats == st[userId][profileName]
       IN IF ~userStats.exists THEN FALSE
          ELSE CountAfter(userStats.uploadDates, cutoffDate) >= uploadProfile.maxUploads

trackSuccessfulUpload(st, t, userId, profileName) ==
  [st EXCEPT ![userId][profileName] =
     [exists |-> TRUE, uploadDates |-> Append(@.uploadDates, t)]]

Max(a, b) == IF a >= b THEN a ELSE b

\* a report that counts every stored timestamp, aged out or not
getRateLimitInfoUnfiltered(st, t, userId, profileName) ==
  LET profile == getUploadProfile(profileName) IN
  IF profile.name = "none" THEN [kind |-> "BadRequest", remainingUploads |-> 0]
  ELSE IF ~profile.hasRateLimit THEN [kind |-> "unlimited", remainingUploads |-> 0]
  ELSE LET userStats == st[userId][profileName] IN
       IF ~userStats.exists \/ Len(userStats.uploadDates) = 0
       THEN [kind |-> "limited", remainingUploads |-> profile.maxUploads]
       ELSE [kind |-> "limited",
             remainingUploads |-> Max(0, profile.maxUploads - Len(userStats.uploadDates))]

\* getRateLimitInfo: the report's remainingUploads ("unlimited" for a profile
\* without rate limit, BadRequest for an unknown profile)
getRateLimitInfo(st, t, userId, profileName) ==
  LET profile == getUploadProfile(profileName) IN
  IF profile.name = "none" THEN [kind |-> "BadRequest", remainingUploads |-> 0]
  ELSE IF ~profile.hasRateLimit THEN [kind |-> "unlimited", remainingUploads |-> 0]
  ELSE LET userStats == st[userId][profileName]
           cutoffDate == t - profile.periodDays
       IN IF ~userStats.exists \/ Len(userStats.uploadDates) = 0
          THEN [kind |-> "limited", remainingUploads |-> profile.maxUploads]
          ELSE [kind |-> "limited",
                remainingUploads |->
                  Max(0, profile.maxUploads
                           - CountAfter(userStats.uploadDates, cutoffDate))]

\* the most recent request or event: its kind, the claim id or correlation id
\* it named, its payload argument, its outcome, and whether it repeats the
\* request before it
SetLast(op, key, arg, res) ==
  last' = [op |-> op, key |-> key, arg |-> arg, res |-> res, rep |-> FALSE]

SetLastRepeatable(op, key, arg, res) ==
  last' = [op |-> op, key |-> key, arg |-> arg, res |-> res,
           rep |-> (last.op = op /\ last.key = key /\ last.arg = arg)]

\* ------------------------------------------------------- claim lifecycle
\* claim ids left when the clients create at most cap claims in all
FreeClaimIds(cap) == {c \in 1..cap : ~claims[c].exists}

\* uuidv4(): a claim id that no stored claim has
FreshClaimId(cap) ==
  CHOOSE c \in FreeClaimIds(cap) : \A d \in FreeClaimIds(cap) : c <= d

createClaimOutcome(st, t, userId, profileName) ==
  LET uploadProfile == getUploadProfile(profileName) IN
  IF uploadProfile.name = "none" THEN "BadRequest"
  ELSE IF uploadProfile.hasRateLimit /\ hasReachedRateLimit(st, t, userId, profileName)
       THEN "Forbidden"
       ELSE "ok"

createClaim(cap, userId, profileName) ==
  LET outcome == createClaimOutcome(stats, now, userId, profileName) IN
  /\ outcome = "ok" => FreeClaimIds(cap) # {}
  /\ IF outcome = "ok"
     THEN /\ claims' = [claims EXCEPT ![FreshClaimId(cap)] =
                 [exists |-> TRUE, claimRequestorUserId |-> userId,
                  uploadProfile |-> profileName, status |-> "pending",
                  reason |-> NoValue, fileUrl |-> NoUrl,
                  moderationMessage |-> NoValue, fileMetadata |-> NoMeta,
                  expiresAt |-> now + ClaimLifetimeDays]]
          /\ SetLast("createClaim", FreshClaimId(cap), 0, "ok")
     ELSE /\ claims' = claims
          /\ SetLast("createClaim", 0, 0, outcome)
  /\ UNCHANGED <<now, stats, up, blobs, imageAssets, assets, muxJobs, mt, ev, rq, mi, statDocs, tsu, usc, evh>>

\* a tracking condition that counts both success statuses but does not look
\* at the previous status
trackOnEverySuccess(status, previousStatus) ==
  status \in {"uploaded", "ready"}

\* the usage-tracking condition of updateClaimStatus
trackNeeded(status, previousStatus) ==
  status = "uploaded" /\ previousStatus # "uploaded"

\* updateClaimStatus on the stores db = [claims, stats]; an undefined
\* optional argument is NoValue and leaves the stored field alone
updateClaimStatus(db, t, claimId, status, reason, fileUrl, moderationMessage, fileMetadata) ==
  IF claimId \notin ClaimIds \/ ~db.claims[claimId].exists
  THEN [claims |-> db.claims, stats |-> db.stats, res |-> "NotFound"]
  ELSE LET claim == db.claims[claimId]
           previousStatus == claim.status
           saved == [claim EXCEPT
                       !.status = status,
                       !.reason = IF reason # NoValue THEN reason ELSE @,
                       !.fileUrl = IF fileUrl # NoUrl THEN fileUrl ELSE @,
                       !.moderationMessage =
                          IF moderationMessage # NoValue THEN moderationMessage ELSE @,
                       !.fileMetadata =
                          IF fileMetadata # NoMeta THEN fileMetadata ELSE @]
       IN [claims |-> [db.claims EXCEPT ![claimId] = saved],
           stats |-> IF trackNeeded(status, previousStatus)
                     THEN trackSuccessfulUpload(db.stats, t,
                            claim.claimRequestorUserId, claim.uploadProfile)
                     ELSE db.stats,
           res |-> "ok"]

\* a validation that returns a pending claim without looking at its expiry
validatePendingBeforeExpiry(cl, t, claimId) ==
  IF claimId \notin ClaimIds \/ ~cl[claimId].exists THEN "NotFound"
  ELSE LET claim == cl[claimId] IN
       IF claim.status = "pending" THEN "ok"
       ELSE IF t > claim.expiresAt THEN "Forbidden"
       ELSE IF claim.status = "failed" /\ claim.reason \in retryableFailureReasons
            THEN "ok"
       ELSE "Forbidden"

\* a validation that lets a retryable reason decide before the status does
validateReasonFirst(cl, t, claimId) ==
  IF claimId \notin ClaimIds \/ ~cl[claimId].exists THEN "NotFound"
  ELSE LET claim == cl[claimId] IN
       IF t > claim.expiresAt THEN "Forbidden"
       ELSE IF claim.reason \in {"File processing error.",
                                 "Server error during processing.",
                                 "Content moderation failed"}
            THEN "ok"
       ELSE IF claim.status = "pending" THEN "ok" ELSE "Forbidden"

\* validateClaimForUpload: "ok" when the claim is returned, else the exception
validateClaimForUpload(cl, t, claimId) ==
  IF claimId \notin ClaimIds \/ ~cl[claimId].exists THEN "NotFound"
  ELSE LET claim == cl[claimId] IN
       IF t > claim.expiresAt THEN "Forbidden"
       ELSE CASE claim.status = "pending" -> "ok"
              [] claim.status = "processing" -> "Forbidden"
              [] claim.status = "uploaded" -> "Forbidden"
              [] claim.status = "moderation_rejected" -> "Forbidden"
              [] claim.status = "failed" ->
                   IF claim.reason # NoValue /\ claim.reason \in retryableFailureReasons
                   THEN "ok" ELSE "Forbidden"
              [] OTHER -> "Forbidden"

\* ------------------------------------------------------ video direct upload
MuxIds == 1..MaxMuxId
NoMuxInfo == [type |-> "none", arg |-> 0]

\* a stored VideoAsset document (schema defaults: status preparing,
\* muxUploadStatus not-started), or the absent slot of an unused asset id;
\* the asset id stands for the generated passTroughUploadID
NoAsset == [exists |-> FALSE, userId |-> NoValue, profileName |-> NoValue,
            claimId |-> 0, status |-> NoValue, muxUploadStatus |-> NoValue,
            muxAssetId |-> 0, playId |-> 0, errorMessage |-> NoValue,
            muxInfo |-> NoMuxInfo]

FreeAssetIds == {a \in AssetIds : ~assets[a].exists}
FreshAssetId == CHOOSE a \in FreeAssetIds : \A b \in FreeAssetIds : a <= b

\* the step of createDirectUploadWithClaim's try block that throws, or "ok";
\* provider is the outcome of VideoProcessorService.createDirectUpload
\* ("ok", "muxError" for uploads.create, "saveError" for asset.save)
directUploadFailure(cl, t, claimId, userId, provider) ==
  LET v == validateClaimForUpload(cl, t, claimId) IN
  IF v # "ok" THEN [step |-> "validate", error |-> v]
  ELSE IF cl[claimId].claimRequestorUserId # userId
       THEN [step |-> "user", error |-> "Forbidden"]
  ELSE IF cl[claimId].uploadProfile \notin VideoProfileNames
       THEN [step |-> "profile", error |-> "BadRequest"]
  ELSE IF provider # "ok" THEN [step |-> provider, error |-> "Error"]
  ELSE [step |-> "none", error |-> "ok"]

StepCode(step) ==
  CASE step = "none" -> 0 [] step = "validate" -> 1 [] step = "user" -> 2
    [] step = "profile" -> 3 [] step = "muxError" -> 4 [] OTHER -> 5

\* the catch block: whatever was thrown, the claim is set to failed
catchFailure(cond, db, t, claimId) ==
  IF cond
  THEN updateClaimStatus(db, t, claimId, "failed", "Error creating video upload",
                         NoUrl, "error message", NoMeta)
  ELSE db

createDirectUploadWithClaim(userId, claimId, provider) ==
  LET f == directUploadFailure(claims, now, claimId, userId, provider)
      reachesProvider == f.step \in {"none", "muxError", "saveError"}
      jobCreated == f.step \in {"none", "saveError"}
      db0 == [claims |-> claims, stats |-> stats]
      db1 == IF reachesProvider
             THEN updateClaimStatus(db0, now, claimId, "processing",
                                    NoValue, NoUrl, NoValue, NoMeta)
             ELSE db0
      db2 == catchFailure(f.error # "ok", db1, now, claimId)
  IN
  /\ f.error = "ok" => FreeAssetIds # {}
  /\ jobCreated => muxJobs < MaxMuxJobs
  /\ claims' = db2.claims
  /\ stats' = db2.stats
  /\ muxJobs' = IF jobCreated THEN muxJobs + 1 ELSE muxJobs
  /\ assets' = IF f.error = "ok"
               THEN [assets EXCEPT ![FreshAssetId] =
                       [NoAsset EXCEPT !.exists = TRUE, !.userId = userId,
                          !.profileName = claims[claimId].uploadProfile,
                          !.claimId = claimId, !.status = "preparing",
                          !.muxUploadStatus = "not-started"]]
               ELSE assets
  /\ SetLast("createDirectUploadWithClaim", claimId, StepCode(f.step), f.error)
  /\ UNCHANGED <<now, up, blobs, imageAssets, mt, ev, rq, mi, statDocs, tsu, usc, evh>>

\* --------------------------------------------------- Mux webhook events
\* findOneAndUpdate by passTroughUploadID; corr 0 matches no asset
FindByPassthrough(as, corr) == {a \in AssetIds : as[a].exists /\ a = corr}

MuxPlaybackUrl(playId) == [kind |-> "mux", id |-> playId, name |-> 0]
VideoMeta(assetId) == [kind |-> "video", id |-> assetId]

\* a filter without the status condition
updatableAlways(asset) == asset.exists

\* handleAssetCreated; a result is [assets, claims, stats, ok]; the filter
\* of its findOneAndUpdate is status # ready
updatableByCreated(asset) == asset.status # "ready"

handleAssetCreated(as, db, corr, arg) ==
  LET found == {a \in FindByPassthrough(as, corr) : updatableByCreated(as[a])} IN
  IF found = {} THEN [assets |-> as, claims |-> db.claims, stats |-> db.stats, ok |-> FALSE]
  ELSE LET a == CHOOSE x \in found : TRUE IN
       [assets |-> [as EXCEPT ![a].status = "processing", ![a].muxAssetId = arg,
                               ![a].muxUploadStatus = "waiting",
                               ![a].muxInfo = [type |-> "created", arg |-> arg]],
        claims |-> db.claims, stats |-> db.stats, ok |-> TRUE]

\* updateClaimIfExists
updateClaimIfExists(asset, db, t, status, message, playbackUrl, errorMessage, extra) ==
  IF asset.claimId = 0 THEN [claims |-> db.claims, stats |-> db.stats, res |-> "ok"]
  ELSE updateClaimStatus(db, t, asset.claimId, status, message, playbackUrl,
                         errorMessage, extra)

\* handleAssetReady; arg is the first playback id, 0 when there is none
handleAssetReady(as, db, t, corr, arg) ==
  LET found == FindByPassthrough(as, corr) IN
  IF arg = 0 \/ found = {}
  THEN [assets |-> as, claims |-> db.claims, stats |-> db.stats, ok |-> FALSE]
  ELSE LET a == CHOOSE x \in found : TRUE
           as2 == [as EXCEPT ![a].status = "ready", ![a].playId = arg,
                             ![a].muxUploadStatus = "ready",
                             ![a].muxInfo = [type |-> "ready", arg |-> arg]]
           db2 == updateClaimIfExists(as2[a], db, t, "ready",
                    "Video ready for playback", MuxPlaybackUrl(arg), NoValue,
                    VideoMeta(a))
       IN [assets |-> as2, claims |-> db2.claims, stats |-> db2.stats,
           ok |-> db2.res = "ok"]

\* handleAssetErrored; arg 0 is a payload without errors
ProviderError(arg) == IF arg = 0 THEN "Unknown processing error" ELSE "provider error"

handleAssetErrored(as, db, t, corr, arg) ==
  LET found == FindByPassthrough(as, corr) IN
  IF found = {}
  THEN [assets |-> as, claims |-> db.claims, stats |-> db.stats, ok |-> FALSE]
  ELSE LET a == CHOOSE x \in found : TRUE
           as2 == [as EXCEPT ![a].status = "errored",
                             ![a].errorMessage = ProviderError(arg),
                             ![a].muxUploadStatus = "errored",
                             ![a].muxInfo = [type |-> "errored", arg |-> arg]]
           db2 == updateClaimIfExists(as2[a], db, t, "failed",
                    "Video processing failed", NoUrl, ProviderError(arg), NoMeta)
       IN [assets |-> as2, claims |-> db2.claims, stats |-> db2.stats,
           ok |-> db2.res = "ok"]

\* a deleted handler that also fails the linked claim
handleAssetDeletedWithClaim(as, db, arg) ==
  LET found == {a \in AssetIds : as[a].exists /\ as[a].muxAssetId = arg} IN
  IF found = {}
  THEN [assets |-> as, claims |-> db.claims, stats |-> db.stats, ok |-> FALSE]
  ELSE LET a == CHOOSE x \in found : TRUE
           db2 == updateClaimIfExists(as[a], db, 0, "failed", "Video deleted",
                                      NoUrl, NoValue, NoMeta)
       IN [assets |-> [as EXCEPT ![a].status = "deleted"],
           claims |-> db2.claims, stats |-> db2.stats, ok |-> TRUE]

\* handleAssetDeleted: the asset is looked up by muxAssetId = payload.object.id
handleAssetDeleted(as, db, arg) ==
  LET found == {a \in AssetIds : as[a].exists /\ as[a].muxAssetId = arg} IN
  IF found = {}
  THEN [assets |-> as, claims |-> db.claims, stats |-> db.stats, ok |-> FALSE]
  ELSE LET a == CHOOSE x \in found : TRUE IN
       [assets |-> [as EXCEPT ![a].status = "deleted"],
        claims |-> db.claims, stats |-> db.stats, ok |-> TRUE]

EventTypes == {"video.upload.created", "video.asset.ready", "video.asset.errored",
               "video.asset.deleted", "video.asset.updated"}

processEvent(as, db, t, type, corr, arg) ==
  CASE type = "video.upload.created" -> handleAssetCreated(as, db, corr, arg)
    [] type = "video.asset.ready" -> handleAssetReady(as, db, t, corr, arg)
    [] type = "video.asset.errored" -> handleAssetErrored(as, db, t, corr, arg)
    [] type = "video.asset.deleted" -> handleAssetDeleted(as, db, arg)
    [] OTHER -> [assets |-> as, claims |-> db.claims, stats |-> db.stats, ok |-> FALSE]

\* handleMuxWebhookEvent: processEvent, then the dead-letter queue when it
\* returned false
handleMuxWebhookEvent(type, corr, arg) ==
  LET r == processEvent(assets, [claims |-> claims, stats |-> stats], now,
                        type, corr, arg)
  IN /\ assets' = r.assets
     /\ claims' = r.claims
     /\ stats' = r.stats
     /\ SetLastRepeatable(type, corr, arg, IF r.ok THEN "ok" ELSE "dlq")
     /\ UNCHANGED <<now, up, blobs, imageAssets, muxJobs, mt, rq, mi, statDocs, tsu, usc, evh>>

\* the handler invoked on an event that reached it outside the stream model
MuxWebhookEvent(type, corr, arg) ==
  handleMuxWebhookEvent(type, corr, arg) /\ UNCHANGED ev

\* ------------------------------------------------------- the event stream
\* sendToDlqWithLogging as handleMuxWebhookEvent calls it: the messages sent
\* to the dead-letter queue for one event, each with its error text and the
\* event type
muxDlqSendsNone(success, type) == <<>>

muxDlqSends(success, type) ==
  IF ~success
  THEN <<[error |-> "Failed to process Mux webhook event", type |-> type]>>
  ELSE <<>>

\* raw messages that parseMessage refuses, and the error it sends and throws
Unparsable == {"empty", "invalidJson", "missingType"}

parseMessage(kind) ==
  CASE kind = "empty" -> [ok |-> FALSE, error |-> "Empty message value"]
    [] kind \in {"invalidJson", "missingType"} ->
         [ok |-> FALSE, error |-> "Invalid message format"]
    [] OTHER -> [ok |-> TRUE, error |-> NoValue]

\* the subscription of subscribeToAllTopics and what became of each message
\* of the topics: whether the pipeline took it, what it sent to the
\* dead-letter queue for it, whether it reached handleMuxWebhookEvent
IdleStream == [sub |-> "active", log |-> <<>>]

LogEntry(kind, type, taken, dlq, routed, success) ==
  [kind |-> kind, type |-> type, taken |-> taken, dlq |-> dlq,
   routed |-> routed, success |-> success]

\* a message that parseMessage refuses arrives: map(parseMessage) sends it to
\* the dead-letter queue and throws, the error reaches catchError, whose
\* replacement of(undefined) completes the subscription; a message arriving
\* after that finds no subscriber
ConsumeUnparsable(kind) ==
  /\ Len(ev.log) < MaxMessages
  /\ ev' = IF ev.sub = "active"
           THEN [sub |-> "completed",
                 log |-> Append(ev.log,
                           LogEntry(kind, NoValue, TRUE,
                                    <<[error |-> parseMessage(kind).error,
                                       type |-> NoValue]>>, FALSE, FALSE))]
           ELSE [ev EXCEPT !.log = Append(@, LogEntry(kind, NoValue, FALSE, <<>>,
                                                      FALSE, FALSE))]
  /\ UNCHANGED <<now, claims, stats, up, blobs, imageAssets, assets, muxJobs, mt, rq, mi, statDocs, tsu, usc, evh, last>>

\* routeEvent for a topic whose name does not contain 'mux':
\* handleProcessingError sends the message to the dead-letter queue
ConsumeOtherTopic(type) ==
  /\ Len(ev.log) < MaxMessages
  /\ ev' = [ev EXCEPT !.log =
             Append(@, IF ev.sub = "active"
                       THEN LogEntry("other", type, TRUE,
                              <<[error |-> "No handler for event type", type |-> type]>>,
                              FALSE, FALSE)
                       ELSE LogEntry("other", type, FALSE, <<>>, FALSE, FALSE))]
  /\ UNCHANGED <<now, claims, stats, up, blobs, imageAssets, assets, muxJobs, mt, rq, mi, statDocs, tsu, usc, evh, last>>

\* a parsed event of the mux topic: routeEvent hands it to
\* handleMuxWebhookEvent, whose promise resolves in every case
ConsumeMuxEvent(type, corr, arg) ==
  /\ Len(ev.log) < MaxMessages
  /\ IF ev.sub = "active"
     THEN LET r == processEvent(assets, [claims |-> claims, stats |-> stats], now,
                                type, corr, arg)
          IN /\ handleMuxWebhookEvent(type, corr, arg)
             /\ ev' = [ev EXCEPT !.log =
                        Append(@, LogEntry("mux", type, TRUE,
                                           muxDlqSends(r.ok, type), TRUE, r.ok))]
     ELSE /\ ev' = [ev EXCEPT !.log =
                     Append(@, LogEntry("mux", type, FALSE, <<>>, FALSE, FALSE))]
          /\ UNCHANGED <<now, claims, stats, up, blobs, imageAssets, assets,
                         muxJobs, mt, rq, mi, statDocs, tsu, usc, evh, last>>

\* --------------------------------------- the service called on its own
\* reasons a caller of updateClaimStatus passes (undefined, one retryable,
\* one not)
CallReasons == {NoValue, "Content moderation failed", "Video processing failed"}

TotalUploadDates(st) ==
  LET RECURSIVE Sum(_)
      Sum(S) == IF S = {} THEN 0
                ELSE LET x == CHOOSE y \in S : TRUE
                     IN Len(st[x[1]][x[2]].uploadDates) + Sum(S \ {x})
  IN Sum(Users \X UploadProfileNames)

\* UploadClaimService.updateClaimStatus called by any client of the service
UpdateClaimStatusCall(claimId, status, reason) ==
  /\ TotalUploadDates(stats) < MaxStatsLen
  /\ LET db == updateClaimStatus([claims |-> claims, stats |-> stats], now,
                  claimId, status, reason, NoUrl, NoValue, NoMeta)
     IN /\ claims' = db.claims
        /\ stats' = db.stats
        /\ SetLastRepeatable("updateClaimStatus", claimId,
                             [status |-> status, reason |-> reason], db.res)
  /\ UNCHANGED <<now, up, blobs, imageAssets, assets, muxJobs, mt, ev, rq, mi, statDocs, tsu, usc, evh>>

\* UploadClaimService.getRateLimitInfo called by the claim controller
GetRateLimitInfoCall(userId, profileName) ==
  /\ LET info == getRateLimitInfo(stats, now, userId, profileName)
     IN SetLast("getRateLimitInfo", 0, info.remainingUploads, info.kind)
  /\ UNCHANGED <<now, claims, stats, up, blobs, imageAssets, assets, muxJobs, mt, ev, rq, mi, statDocs, tsu, usc, evh>>

\* UploadClaimService.validateClaimForUpload called by any client
ValidateClaimForUploadCall(claimId) ==
  /\ SetLast("validateClaimForUpload", claimId, 0,
             validateClaimForUpload(claims, now, claimId))
  /\ UNCHANGED <<now, claims, stats, up, blobs, imageAssets, assets, muxJobs, mt, ev, rq, mi, statDocs, tsu, usc, evh>>

\* ------------------------------------------------------------------ time
Tick ==
  /\ now < MaxTime
  /\ now' = now + 1
  /\ UNCHANGED <<claims, stats, up, blobs, imageAssets, assets, muxJobs, mt, ev, rq, mi, statDocs, tsu, usc, evh, last>>

\* ------------------------------------------------- image upload pipeline
\* input files: width x height of the decoded image; <<0, 0>> does not decode
Images == {<<100, 100>>, <<100, 140>>, <<90, 90>>}

IdleUpload ==
  [pc |-> "idle", claim |-> 0, user |-> NoValue, profile |-> NoValue,
   folder |-> 0, img |-> <<0, 0>>, mod |-> "none", main |-> "none",
   res |-> [r \in Resolutions |-> "none"], result |-> "none",
   pendClaim |-> "none", pendDelete |-> FALSE, pendRecord |-> FALSE]

Abs(x) == IF x < 0 THEN -x ELSE x

\* ImageProcessor.processImage, aspect ratio check:
\* |w/h - num/denom| / (num/denom) > allowedDeviation, in integers
aspectRatioViolated(img) ==
  LET w == img[1]
      h == img[2]
  IN /\ w > 0 /\ h > 0
     /\ Abs(w * AspectDenom - AspectNum * h) * 1000
          > AllowedDeviationPermille * AspectNum * h

\* ImageProcessor.processImage, minimum dimensions check
dimensionsTooSmall(img) ==
  (img[1] > 0 /\ img[1] < MinWidth) \/ (img[2] > 0 /\ img[2] < MinHeight)

\* a metadata stage without the aspect ratio check
processImageCheckNoAspect(profileName, img) ==
  IF img = <<0, 0>> THEN "BadRequest"
  ELSE IF getUploadProfile(profileName).hasAspect /\ dimensionsTooSmall(img)
       THEN "BadRequest"
  ELSE "ok"

\* outcome of the metadata stage of processImage under the profile's options
processImageCheck(profileName, img) ==
  IF img = <<0, 0>> THEN "BadRequest"
  ELSE IF getUploadProfile(profileName).hasAspect /\ aspectRatioViolated(img)
       THEN "BadRequest"
  ELSE IF getUploadProfile(profileName).hasAspect /\ dimensionsTooSmall(img)
       THEN "BadRequest"
  ELSE "ok"

\* the object keys of one upload: 0 is index.webp, r is resolution r
MainKey == 0
FolderKeys(folder) == {[folder |-> folder, name |-> k] : k \in 0..NumResolutions}
UsedFolders == {b.folder : b \in blobs}
\* uuidv4() of the folder path: a folder number under which no object is
\* stored (a new upload starts only when the previous one is quiescent)
FreshFolder == CHOOSE f \in 1..MaxFolders : f \notin UsedFolders /\
                  \A g \in 1..MaxFolders : g \notin UsedFolders => f <= g

\* nothing of the previous upload is still running
Quiescent ==
  /\ up.pc \in {"idle", "end"}
  /\ up.pendClaim = "none" /\ ~up.pendDelete /\ ~up.pendRecord
  /\ up.main # "put" /\ \A r \in Resolutions : up.res[r] # "put"

\* a preparation that does not compare the acting user with the requestor
validateAndPrepareNoUserCheck(cl, t, claimId, userId) ==
  LET v == validateClaimForUpload(cl, t, claimId) IN
  IF v # "ok" THEN v
  ELSE IF getUploadProfile(cl[claimId].uploadProfile).name = "none" THEN "BadRequest"
  ELSE "ok"

\* validateAndPrepareUpload: the exception it raises, or "ok"
validateAndPrepareOutcome(cl, t, claimId, userId) ==
  LET v == validateClaimForUpload(cl, t, claimId) IN
  IF v # "ok" THEN v
  ELSE IF cl[claimId].claimRequestorUserId # userId THEN "Forbidden"
  ELSE IF getUploadProfile(cl[claimId].uploadProfile).name = "none" THEN "BadRequest"
  ELSE "ok"

\* uploadImageWithClaim up to the subscription of the fan-out: file type
\* check, validateAndPrepareUpload (claim set to processing, folder path
\* generated) and the start of runFullParallelProcessing, which invokes
\* moderateImage and subscribes the main and resolution branches
uploadImageWithClaim(mimeAllowed, img, claimId, userId) ==
  LET outcome == IF ~mimeAllowed THEN "UnsupportedMediaType"
                 ELSE validateAndPrepareOutcome(claims, now, claimId, userId)
  IN
  /\ Quiescent
  /\ IF outcome # "ok"
     THEN /\ SetLast("uploadImage", claimId, 0, outcome)
          /\ UNCHANGED <<now, claims, stats, up, blobs, imageAssets, assets, muxJobs, mt, ev, rq, mi, statDocs, tsu, usc, evh>>
     ELSE /\ \E f \in 1..MaxFolders : f \notin UsedFolders
          /\ LET db == updateClaimStatus([claims |-> claims, stats |-> stats], now,
                         claimId, "processing", NoValue, NoUrl, NoValue, NoMeta)
             IN /\ claims' = db.claims
                /\ stats' = db.stats
          /\ up' = [IdleUpload EXCEPT
                      !.pc = "run", !.claim = claimId, !.user = userId,
                      !.profile = claims[claimId].uploadProfile,
                      !.folder = FreshFolder, !.img = img,
                      !.mod = "prep", !.main = "meta",
                      !.res = [r \in Resolutions |-> "proc"]]
          /\ SetLast("uploadImage", claimId, 0, "started")
          /\ UNCHANGED <<now, blobs, imageAssets, assets, muxJobs, mt, ev, rq, mi, statDocs, tsu, usc, evh>>

\* an error reaches the join: forkJoin errors at once, the other branches are
\* unsubscribed (a put already sent to S3 still completes), and the tap error
\* handler calls handleUploadError unless the error is an HttpException.
\* The moderateImage promise keeps running: a classifier request already sent
\* is answered into the void ("ignored"), one not yet sent goes out after the
\* failure ("late")
FailUpload(u, kind) ==
  [u EXCEPT !.result = kind, !.pc = "end",
            !.pendClaim = IF kind = "Error" THEN "error" ELSE "none",
            !.mod = IF @ = "prep" THEN "late" ELSE IF @ = "call" THEN "ignored" ELSE @,
            !.main = IF @ \in {"meta", "buf"} THEN "cancelled" ELSE @,
            !.res = [r \in Resolutions |->
                       IF u.res[r] = "proc" THEN "cancelled" ELSE u.res[r]]]

AllBranchesDone(u) ==
  /\ u.mod \in {"clean", "bad"}
  /\ u.main = "done"
  /\ \A r \in Resolutions : u.res[r] = "done"

\* the join of runFullParallelProcessing and the switchMap after it:
\* handleModerationFailure on an inappropriate verdict, else finalizeUpload
Join(u) ==
  IF u.result # "none" \/ ~AllBranchesDone(u) THEN u
  ELSE IF u.mod = "bad"
       THEN [u EXCEPT !.result = "MethodNotAllowed", !.pc = "end",
                      !.pendClaim = "moderation", !.pendDelete = TRUE]
       ELSE [u EXCEPT !.result = "ok", !.pc = "end",
                      !.pendClaim = "uploaded", !.pendRecord = TRUE]

PipelineFrame == UNCHANGED <<now, claims, stats, imageAssets, assets, muxJobs, mt, ev, rq, mi, statDocs, tsu, usc, evh, last>>

\* moderateImage: image prepared, classifier request sent
ModerationPrepared ==
  /\ up.pc = "run" /\ up.mod = "prep"
  /\ up' = [up EXCEPT !.mod = "call"]
  /\ UNCHANGED blobs /\ PipelineFrame

\* moderateImage resolves with a verdict or rejects
ModerationDone(verdict) ==
  /\ up.pc = "run" /\ up.mod \in {"prep", "call"}
  /\ verdict = "err" \/ up.mod = "call"
  /\ up' = IF verdict = "err" THEN FailUpload([up EXCEPT !.mod = "err"], "Error")
           ELSE Join([up EXCEPT !.mod = verdict])
  /\ UNCHANGED blobs /\ PipelineFrame

\* main branch: metadata read, constraint checks
MainMetadata ==
  /\ up.pc = "run" /\ up.main = "meta"
  /\ up' = IF processImageCheck(up.profile, up.img) = "ok"
           THEN [up EXCEPT !.main = "buf"]
           ELSE FailUpload([up EXCEPT !.main = "err"], "BadRequest")
  /\ UNCHANGED blobs /\ PipelineFrame

\* main branch: buffer produced, PutObject for index.webp sent
MainPutIssued ==
  /\ up.pc = "run" /\ up.main = "buf"
  /\ up' = [up EXCEPT !.main = "put"]
  /\ UNCHANGED blobs /\ PipelineFrame

\* main branch: PutObject answered
MainPutDone(ok) ==
  /\ up.main = "put"
  /\ IF ok
     THEN /\ blobs' = blobs \cup {[folder |-> up.folder, name |-> MainKey]}
          /\ up' = Join([up EXCEPT !.main = "done"])
     ELSE /\ blobs' = blobs
          /\ up' = IF up.result = "none"
                   THEN FailUpload([up EXCEPT !.main = "puterr"], "Error")
                   ELSE [up EXCEPT !.main = "puterr"]
  /\ PipelineFrame

\* resolution branch r: processImageAtResolution done, PutObject sent
ResolutionPutIssued(r) ==
  /\ up.pc = "run" /\ up.res[r] = "proc"
  /\ up' = IF up.img = <<0, 0>>
           THEN FailUpload([up EXCEPT !.res[r] = "err"], "BadRequest")
           ELSE [up EXCEPT !.res[r] = "put"]
  /\ UNCHANGED blobs /\ PipelineFrame

\* resolution branch r: PutObject answered
ResolutionPutDone(r, ok) ==
  /\ up.res[r] = "put"
  /\ IF ok
     THEN /\ blobs' = blobs \cup {[folder |-> up.folder, name |-> r]}
          /\ up' = Join([up EXCEPT !.res[r] = "done"])
     ELSE /\ blobs' = blobs
          /\ up' = IF up.result = "none"
                   THEN FailUpload([up EXCEPT !.res[r] = "puterr"], "Error")
                   ELSE [up EXCEPT !.res[r] = "puterr"]
  /\ PipelineFrame

S3Url(folder) == [kind |-> "s3", id |-> folder, name |-> MainKey]
ImageMeta(folder) == [kind |-> "image", id |-> folder]

\* the updateClaimStatus call left running by handleModerationFailure,
\* handleUploadError or finalizeUpload completes
PendingClaimUpdate ==
  /\ up.pendClaim # "none"
  /\ LET dbin == [claims |-> claims, stats |-> stats]
         db == CASE up.pendClaim = "moderation" ->
                      updateClaimStatus(dbin, now, up.claim, "failed",
                        "Content moderation failed", NoUrl, "moderation message", NoMeta)
                 [] up.pendClaim = "error" ->
                      updateClaimStatus(dbin, now, up.claim, "failed",
                        "File processing error.", NoUrl, "error message", NoMeta)
                 [] OTHER ->
                      updateClaimStatus(dbin, now, up.claim, "uploaded",
                        "File successfully uploaded and processed",
                        S3Url(up.folder), NoValue, ImageMeta(up.folder))
     IN /\ claims' = db.claims
        /\ stats' = db.stats
  /\ up' = [up EXCEPT !.pendClaim = "none"]
  /\ UNCHANGED <<now, blobs, imageAssets, assets, muxJobs, mt, ev, rq, mi, statDocs, tsu, usc, evh, last>>

\* a delete that removes index.webp only
deleteMainObjectOnly(bs, folder) ==
  {b \in bs : ~(b.folder = folder /\ b.name = 0)}

\* AwsS3Service.deleteFolder: list the prefix, delete what was listed
deleteFolder(bs, folder) == {b \in bs : b.folder # folder}

PendingDeleteFolder ==
  /\ up.pendDelete
  /\ blobs' = deleteFolder(blobs, up.folder)
  /\ up' = [up EXCEPT !.pendDelete = FALSE]
  /\ PipelineFrame

\* createAndSaveRecord: record.save() completes
PendingRecordSave ==
  /\ up.pendRecord
  /\ imageAssets' = imageAssets \cup {[claimId |-> up.claim, folder |-> up.folder]}
  /\ up' = [up EXCEPT !.pendRecord = FALSE]
  /\ UNCHANGED <<now, claims, stats, blobs, assets, muxJobs, mt, ev, rq, mi, statDocs, tsu, usc, evh, last>>

\* ----------------------------------- image upload requests side by side
\* validateAndPrepareUpload of several HTTP requests, each advancing at its
\* awaits: the read of validateClaimForUpload, then the write of
\* updateClaimStatus(claimId, 'processing'), then the pipeline
RequestIds == 1..MaxRequests

IdleRequest == [pc |-> "idle", claim |-> 0, user |-> NoValue, error |-> NoValue]

RequestFrame ==
  UNCHANGED <<now, stats, up, blobs, imageAssets, assets, muxJobs, mt, ev, mi, statDocs, tsu, usc, evh, last>>

\* uploadImageWithClaim is called: the file type is allowed and
\* validateClaimForUpload is about to read the claim
UploadRequestArrives(r, claimId, userId) ==
  /\ rq[r].pc \in {"idle", "rejected", "done"}
  /\ rq' = [rq EXCEPT ![r] = [pc |-> "validate", claim |-> claimId,
                                user |-> userId, error |-> NoValue]]
  /\ UNCHANGED claims /\ RequestFrame

\* validateClaimForUpload resolves, then the user and profile checks of the
\* switchMap: the request goes on to the status update or is rejected
ValidateClaimRead(r) ==
  /\ rq[r].pc = "validate"
  /\ LET outcome == validateAndPrepareOutcome(claims, now, rq[r].claim, rq[r].user)
     IN rq' = [rq EXCEPT ![r].pc = IF outcome = "ok" THEN "update" ELSE "rejected",
                         ![r].error = IF outcome = "ok" THEN NoValue ELSE outcome]
  /\ UNCHANGED claims /\ RequestFrame

\* updateClaimStatus(claimId, 'processing') of a validated request completes
\* and the upload context goes to runFullParallelProcessing
SetProcessingWrite(r) ==
  /\ rq[r].pc = "update"
  /\ claims' = updateClaimStatus([claims |-> claims, stats |-> stats], now,
                  rq[r].claim, "processing", NoValue, NoUrl, NoValue, NoMeta).claims
  /\ rq' = [rq EXCEPT ![r].pc = "pipeline"]
  /\ RequestFrame

\* the pipeline of the request ends with a moderation failure and
\* handleModerationFailure's claim update completes
PipelineModerationFailure(r) ==
  /\ rq[r].pc = "pipeline"
  /\ claims' = updateClaimStatus([claims |-> claims, stats |-> stats], now,
                  rq[r].claim, "failed", "Content moderation failed", NoUrl,
                  "moderation message", NoMeta).claims
  /\ rq' = [rq EXCEPT ![r].pc = "done"]
  /\ RequestFrame

\* ------------------------------------------------------- text moderation
\* a text is a sequence of characters
Alphabet == {"a", "b", "A", "!", " "}
isWhitespace(c) == c = " "
isAlphanumeric(c) == c \in {"a", "b", "A"}
lowerChar(c) == IF c = "A" THEN "a" ELSE c
toLowerCase(text) == [i \in 1..Len(text) |-> lowerChar(text[i])]

\* String.split(/\s+/): the pieces between maximal runs of whitespace, empty
\* pieces at either end included
RECURSIVE splitWhitespace(_, _, _)
splitWhitespace(s, cur, prevWs) ==
  IF s = <<>> THEN <<cur>>
  ELSE IF isWhitespace(Head(s))
       THEN IF prevWs THEN splitWhitespace(Tail(s), cur, TRUE)
            ELSE <<cur>> \o splitWhitespace(Tail(s), <<>>, TRUE)
       ELSE splitWhitespace(Tail(s), Append(cur, Head(s)), FALSE)

RECURSIVE dropLeading(_)
dropLeading(w) ==
  IF w = <<>> \/ isAlphanumeric(Head(w)) THEN w ELSE dropLeading(Tail(w))

RECURSIVE dropTrailing(_)
dropTrailing(w) ==
  IF w = <<>> \/ isAlphanumeric(w[Len(w)]) THEN w
  ELSE dropTrailing(SubSeq(w, 1, Len(w) - 1))

\* word.replace(/^[^a-z0-9]+|[^a-z0-9]+$/gi, '')
cleanWord(word) == dropTrailing(dropLeading(word))

\* the word list, and the set the constructor builds from it
WordList == {<<"a", "b">>, <<"A">>}
profaneWords == {toLowerCase(w) : w \in WordList}

RECURSIVE detectWords(_)
detectWords(words) ==
  IF words = <<>> THEN <<>>
  ELSE LET c == cleanWord(Head(words)) IN
       (IF c \in profaneWords THEN <<c>> ELSE <<>>) \o detectWords(Tail(words))

checkProfaneWords(keywordFilterEnabled, text) ==
  IF ~keywordFilterEnabled THEN [hasProfanity |-> FALSE, detectedWords |-> <<>>]
  ELSE LET d == detectWords(splitWhitespace(toLowerCase(text), <<>>, FALSE)) IN
       [hasProfanity |-> Len(d) > 0, detectedWords |-> d]

\* Array.join(', ')
RECURSIVE joinComma(_)
joinComma(ws) ==
  IF ws = <<>> THEN <<>>
  ELSE IF Len(ws) = 1 THEN ws[1]
  ELSE ws[1] \o <<",", " ">> \o joinComma(Tail(ws))

\* an LLM stage that runs whatever the keyword filter found
llmCallAlways(groqLLMEnabled, isInappropriate) == groqLLMEnabled

\* the guard of the LLM stage of moderateText
llmCallNeeded(groqLLMEnabled, isInappropriate) == groqLLMEnabled /\ ~isInappropriate

\* moderateText; answer is what the LLM would reply ("YES", "NO", "error")
moderateText(keywordFilterEnabled, groqLLMEnabled, text, answer) ==
  LET check == checkProfaneWords(keywordFilterEnabled, text)
      flagged == keywordFilterEnabled /\ check.hasProfanity
      called == llmCallNeeded(groqLLMEnabled, flagged)
      keywordMessage == <<"Profane words detected: ">> \o joinComma(check.detectedWords)
  IN
  IF called /\ answer = "error"
  THEN [isInappropriate |-> FALSE,
        message |-> <<"Moderation check skipped due to error">>, llmCalls |-> 1]
  ELSE IF flagged
  THEN [isInappropriate |-> TRUE,
        message |-> IF called /\ answer = "YES"
                    THEN keywordMessage \o <<". ", "LLM detected inappropriate content">>
                    ELSE keywordMessage,
        llmCalls |-> IF called THEN 1 ELSE 0]
  ELSE IF called /\ answer = "YES"
  THEN [isInappropriate |-> TRUE,
        message |-> <<"LLM detected inappropriate content">>, llmCalls |-> 1]
  ELSE [isInappropriate |-> FALSE, message |-> <<"Text passed moderation check">>,
        llmCalls |-> IF called THEN 1 ELSE 0]

NoResult == [isInappropriate |-> FALSE, message |-> <<>>, llmCalls |-> 0]
IdleText == [done |-> FALSE, text |-> <<>>, keywordFilterEnabled |-> FALSE,
             groqLLMEnabled |-> FALSE, result |-> NoResult]

RECURSIVE SeqsUpTo(_)
SeqsUpTo(n) ==
  IF n = 0 THEN {<<>>}
  ELSE LET shorter == SeqsUpTo(n - 1) IN
       shorter \cup {Append(t, c) : t \in shorter, c \in Alphabet}
Texts == SeqsUpTo(MaxTextLen)

ModerateTextCall ==
  /\ ~mt.done
  /\ \E answer \in {"YES", "NO", "error"} :
       mt' = [mt EXCEPT !.done = TRUE,
                !.result = moderateText(mt.keywordFilterEnabled, mt.groqLLMEnabled,
                                        mt.text, answer)]
  /\ UNCHANGED <<now, claims, stats, up, blobs, imageAssets, assets, muxJobs, ev,
                 rq, mi, statDocs, tsu, usc, evh, last>>

\* ------------------------------------ event handlers side by side
\* mergeMap(routeEvent) runs the handlers of several events together; a
\* ready or errored handler advances at its awaits: the findOneAndUpdate
\* of the asset, then updateClaimIfExists (updateClaimStatus, taken here as
\* one step)
HandlerIds == 1..MaxCalls

IdleHandler == [pc |-> "idle", type |-> NoValue, arg |-> 0, asset |-> 0,
                doc |-> NoAsset, ok |-> FALSE]

\* the update document of the handler's findAndUpdateAssetByPassthrough
assetUpdateOf(asset, type, arg) ==
  IF type = "video.asset.ready"
  THEN [asset EXCEPT !.status = "ready", !.playId = arg,
                     !.muxUploadStatus = "ready",
                     !.muxInfo = [type |-> "ready", arg |-> arg]]
  ELSE [asset EXCEPT !.status = "errored",
                     !.errorMessage = ProviderError(arg),
                     !.muxUploadStatus = "errored",
                     !.muxInfo = [type |-> "errored", arg |-> arg]]

HandlerFrame ==
  UNCHANGED <<now, up, blobs, imageAssets, muxJobs, mt, ev, rq, mi, statDocs, tsu,
              usc, last>>

\* handleAssetReady or handleAssetErrored up to the answer of
\* findOneAndUpdate: no playback id (ready) or no asset ends the handler
\* with failure, else the asset is updated and returned
EventAssetUpdate(h, type, corr, arg) ==
  LET found == FindByPassthrough(assets, corr) IN
  /\ evh[h].pc = "idle"
  /\ IF (type = "video.asset.ready" /\ arg = 0) \/ found = {}
     THEN /\ evh' = [evh EXCEPT ![h] =
                       [IdleHandler EXCEPT !.pc = "done", !.type = type,
                                           !.arg = arg]]
          /\ UNCHANGED assets
     ELSE LET a == CHOOSE x \in found : TRUE IN
          /\ assets' = [assets EXCEPT ![a] = assetUpdateOf(@, type, arg)]
          /\ evh' = [evh EXCEPT ![h] =
                       [pc |-> "asset", type |-> type, arg |-> arg, asset |-> a,
                        doc |-> assetUpdateOf(assets[a], type, arg), ok |-> FALSE]]
  /\ UNCHANGED <<claims, stats>> /\ HandlerFrame

\* the handler's updateClaimIfExists resolves and the handler returns
EventClaimUpdate(h) ==
  /\ evh[h].pc = "asset"
  /\ LET dbin == [claims |-> claims, stats |-> stats]
         db == IF evh[h].type = "video.asset.ready"
               THEN updateClaimIfExists(evh[h].doc, dbin, now, "ready",
                      "Video ready for playback", MuxPlaybackUrl(evh[h].arg),
                      NoValue, VideoMeta(evh[h].asset))
               ELSE updateClaimIfExists(evh[h].doc, dbin, now, "failed",
                      "Video processing failed", NoUrl,
                      ProviderError(evh[h].arg), NoMeta)
     IN /\ claims' = db.claims
        /\ stats' = db.stats
        /\ evh' = [evh EXCEPT ![h].pc = "done", ![h].ok = (db.res = "ok")]
  /\ UNCHANGED assets /\ HandlerFrame

\* ------------------------------- updateClaimStatus calls side by side
\* updateClaimStatus advancing at its awaits: findOne, then save, then
\* trackSuccessfulUpload (taken here as one step; its own two steps are
\* TrackFind and TrackSave below)
IdleUpdate == [pc |-> "idle", claimId |-> 0, status |-> NoValue,
               previousStatus |-> NoValue, res |-> NoValue]

UpdateFrame ==
  UNCHANGED <<now, up, blobs, imageAssets, assets, muxJobs, mt, ev, rq, mi,
              statDocs, tsu, evh, last>>

\* updateClaimStatus(claimId, status) is called and its findOne resolves:
\* NotFound, or the status read is kept as previousStatus
UpdateClaimRead(k, claimId, status) ==
  /\ usc[k].pc = "idle"
  /\ usc' = [usc EXCEPT ![k] =
              IF claimId \notin ClaimIds \/ ~claims[claimId].exists
              THEN [pc |-> "done", claimId |-> claimId, status |-> status,
                    previousStatus |-> NoValue, res |-> "NotFound"]
              ELSE [pc |-> "found", claimId |-> claimId, status |-> status,
                    previousStatus |-> claims[claimId].status, res |-> NoValue]]
  /\ UNCHANGED <<claims, stats, evh>> /\ UpdateFrame

\* claim.save() resolves: the modified path, status, is written to the
\* stored claim; the call ends here unless usage is to be tracked
UpdateClaimSave(k) ==
  /\ usc[k].pc = "found"
  /\ claims' = IF usc[k].status # usc[k].previousStatus
               THEN [claims EXCEPT ![usc[k].claimId].status = usc[k].status]
               ELSE claims
  /\ usc' = [usc EXCEPT
              ![k].pc = IF trackNeeded(usc[k].status, usc[k].previousStatus)
                        THEN "saved" ELSE "done",
              ![k].res = IF trackNeeded(usc[k].status, usc[k].previousStatus)
                         THEN NoValue ELSE "ok"]
  /\ UNCHANGED stats /\ UpdateFrame

\* trackSuccessfulUpload(claim.claimRequestorUserId, claim.uploadProfile)
\* resolves and the call returns
UpdateClaimTrack(k) ==
  /\ usc[k].pc = "saved"
  /\ stats' = trackSuccessfulUpload(stats, now,
                 claims[usc[k].claimId].claimRequestorUserId,
                 claims[usc[k].claimId].uploadProfile)
  /\ usc' = [usc EXCEPT ![k].pc = "done", ![k].res = "ok"]
  /\ UNCHANGED claims /\ UpdateFrame

\* --------------------------- trackSuccessfulUpload calls side by side
\* The UserUploadStats collection as the list of its documents (the schema
\* has no unique index on userId, profileName), and trackSuccessfulUpload
\* advancing at its two awaits: findOne, then save
CallIds == 1..MaxCalls

IdleTrack == [pc |-> "idle", userId |-> NoValue, profileName |-> NoValue,
              doc |-> 0, date |-> 0]

\* the documents of (userId, profileName), by position in the collection
DocsOf(docs, userId, profileName) ==
  {i \in 1..Len(docs) :
     docs[i].userId = userId /\ docs[i].profileName = profileName}

\* findOne({userId, profileName}): the first such document, 0 for null
findOneStats(docs, userId, profileName) ==
  IF DocsOf(docs, userId, profileName) = {} THEN 0
  ELSE CHOOSE i \in DocsOf(docs, userId, profileName) :
         \A j \in DocsOf(docs, userId, profileName) : i <= j

\* userStats.save(): a document built by the call is inserted; for a stored
\* document the pushed date is sent as a $push on that document
saveStats(docs, call) ==
  IF call.doc = 0
  THEN Append(docs, [userId |-> call.userId, profileName |-> call.profileName,
                     uploadDates |-> <<call.date>>])
  ELSE [docs EXCEPT ![call.doc].uploadDates = Append(@, call.date)]

TrackFrame ==
  UNCHANGED <<now, claims, stats, up, blobs, imageAssets, assets, muxJobs, mt, ev,
              rq, mi, usc, evh, last>>

\* trackSuccessfulUpload is called and its findOne resolves; the date is
\* pushed on the document in memory
TrackFind(k, userId, profileName) ==
  /\ tsu[k].pc = "idle"
  /\ tsu' = [tsu EXCEPT ![k] =
              [pc |-> "found", userId |-> userId, profileName |-> profileName,
               doc |-> findOneStats(statDocs, userId, profileName), date |-> now]]
  /\ UNCHANGED statDocs /\ TrackFrame

\* its save resolves
TrackSave(k) ==
  /\ tsu[k].pc = "found"
  /\ statDocs' = saveStats(statDocs, tsu[k])
  /\ tsu' = [tsu EXCEPT ![k].pc = "done"]
  /\ TrackFrame

\* ------------------------------------------------------ image moderation
\* config.media.moderation.rules
defaultThreshold == 60

\* rules.categories in configuration order; parentName "" is a category
\* without parentName
categories ==
  <<[name |-> "Smoking", parentName |-> "Drugs & Tobacco Paraphernalia & Use",
     threshold |-> 80],
    [name |-> "Nudity", parentName |-> "Sexual Content", threshold |-> 80],
    [name |-> "Explicit Nudity", parentName |-> "", threshold |-> 60],
    [name |-> "Violence", parentName |-> "", threshold |-> 70],
    [name |-> "Visually Disturbing", parentName |-> "", threshold |-> 70],
    [name |-> "Drugs", parentName |-> "", threshold |-> 70],
    [name |-> "Tobacco", parentName |-> "", threshold |-> 70],
    [name |-> "Alcohol", parentName |-> "", threshold |-> 70],
    [name |-> "Gambling", parentName |-> "", threshold |-> 70],
    [name |-> "Hate Symbols", parentName |-> "", threshold |-> 60]>>

\* ModerationLabel values of the classifier: Name "" and ParentName "" are
\* an absent (or empty) field, Confidence 0 an absent (or zero) confidence
LabelNames == {"", "Nudity", "Explicit Nudity", "Pets"}
LabelParentNames == {"", "Sexual Content", "Animals"}
LabelConfidences == {0, 59, 60, 79, 80}
Labels == [Name : LabelNames, ParentName : LabelParentNames,
           Confidence : LabelConfidences]

\* the predicate of categories.find
categoryMatches(label, category) ==
  \/ label.Name = category.name
  \/ (label.ParentName # "" /\ category.parentName # ""
        /\ label.ParentName = category.parentName)

\* categories.find: the index of the first matching category, 0 for none
RECURSIVE findFrom(_, _)
findFrom(label, i) ==
  IF i > Len(categories) THEN 0
  ELSE IF categoryMatches(label, categories[i]) THEN i
  ELSE findFrom(label, i + 1)

matchingCategory(label) == findFrom(label, 1)

\* matchingCategory.threshold || defaultThreshold
resolvedThreshold(category) ==
  IF category.threshold # 0 THEN category.threshold ELSE defaultThreshold

\* the body of the loop of checkForContentViolations: is the label pushed
labelViolates(label) ==
  IF label.Name = "" \/ label.Confidence = 0 THEN FALSE
  ELSE LET m == matchingCategory(label) IN
       m # 0 /\ label.Confidence >= resolvedThreshold(categories[m])

\* a check whose comparison is strict
checkForContentViolationsStrict(moderationLabels) ==
  LET over(label) ==
        /\ label.Name # "" /\ label.Confidence # 0
        /\ matchingCategory(label) # 0
        /\ label.Confidence > resolvedThreshold(categories[matchingCategory(label)])
  IN SelectSeq(moderationLabels, over)

checkForContentViolations(moderationLabels) ==
  SelectSeq(moderationLabels, labelViolates)

\* moderateImage: awsRekognitionEnabled and a configured client (enabled),
\* the labels of DetectModerationLabels, whether a classifier call rejects
\* (fails) and whether moderateText flags the text found in the image; the
\* message of a rejection for labels lists the violating labels
moderateImage(enabled, moderationLabels, fails, textInappropriate) ==
  LET violatingLabels == checkForContentViolations(moderationLabels) IN
  IF ~enabled
  THEN [kind |-> "returned", isInappropriate |-> FALSE, message |-> "skipped",
        violatingLabels |-> <<>>]
  ELSE IF fails
  THEN [kind |-> "thrown", isInappropriate |-> FALSE,
        message |-> "Failed to moderate image content", violatingLabels |-> <<>>]
  ELSE IF textInappropriate
  THEN [kind |-> "returned", isInappropriate |-> TRUE,
        message |-> "Inappropriate content detected in image text",
        violatingLabels |-> <<>>]
  ELSE IF Len(violatingLabels) > 0
  THEN [kind |-> "returned", isInappropriate |-> TRUE,
        message |-> "Image contains inappropriate content",
        violatingLabels |-> violatingLabels]
  ELSE [kind |-> "returned", isInappropriate |-> FALSE,
        message |-> "Image passed content moderation checks",
        violatingLabels |-> violatingLabels]

NoModerationResult == [kind |-> "none", isInappropriate |-> FALSE, message |-> "",
                       violatingLabels |-> <<>>]
IdleModeration == [done |-> FALSE, enabled |-> FALSE, labels |-> <<>>,
                   result |-> NoModerationResult]

RECURSIVE LabelSeqsUpTo(_)
LabelSeqsUpTo(n) ==
  IF n = 0 THEN {<<>>}
  ELSE LET shorter == LabelSeqsUpTo(n - 1) IN
       shorter \cup {Append(t, l) : t \in shorter, l \in Labels}

ModerateImageCall ==
  /\ ~mi.done
  /\ \E fails \in BOOLEAN, textInappropriate \in BOOLEAN :
       mi' = [mi EXCEPT !.done = TRUE,
                !.result = moderateImage(mi.enabled, mi.labels, fails,
                                         textInappropriate)]
  /\ UNCHANGED <<now, claims, stats, up, blobs, imageAssets, assets, muxJobs, mt,
                 ev, rq, statDocs, tsu, usc, evh, last>>

Init ==
  /\ now = 0
  /\ claims = [c \in ClaimIds |-> NoClaim]
  /\ stats = [u \in Users |-> [p \in UploadProfileNames |-> NoStats]]
  /\ up = IdleUpload
  /\ blobs = {}
  /\ imageAssets = {}
  /\ assets = [a \in AssetIds |-> NoAsset]
  /\ muxJobs = 0
  /\ mt = IdleText
  /\ ev = IdleStream
  /\ rq = [r \in RequestIds |-> IdleRequest]
  /\ evh = [h \in HandlerIds |-> IdleHandler]
  /\ usc = [k \in CallIds |-> IdleUpdate]
  /\ tsu = [k \in CallIds |-> IdleTrack]
  /\ statDocs = <<>>
  /\ mi = IdleModeration
  /\ last = [op |-> "init", key |-> 0, arg |-> 0, res |-> "ok", rep |-> FALSE]

ClaimActions(cap) ==
  \/ Tick
  \/ \E u \in Users, p \in AllProfileNames : createClaim(cap, u, p)

\* the rate limiter under a client that completes uploads at once
RateActions ==
  \/ \E c \in ClaimIds : UpdateClaimStatusCall(c, "uploaded", NoValue)
  \/ \E u \in Users, p \in AllProfileNames : GetRateLimitInfoCall(u, p)

NextRate == ClaimActions(MaxClaims) \/ RateActions

SpecRate == Init /\ [][NextRate]_vars

ServiceActions ==
  \/ \E c \in 1..FlowClaims, st \in ClaimStatus, r \in CallReasons :
        UpdateClaimStatusCall(c, st, r)
  \/ \E c \in 1..FlowClaims : ValidateClaimForUploadCall(c)

NextService == ClaimActions(FlowClaims) \/ ServiceActions

SpecService == Init /\ [][NextService]_vars

ImageActions ==
  \/ \E m \in BOOLEAN, i \in Images, c \in 1..FlowClaims, u \in Users :
        uploadImageWithClaim(m, i, c, u)
  \/ ModerationPrepared
  \/ \E v \in {"clean", "bad", "err"} : ModerationDone(v)
  \/ MainMetadata
  \/ MainPutIssued
  \/ \E ok \in BOOLEAN : MainPutDone(ok)
  \/ \E r \in Resolutions : ResolutionPutIssued(r)
  \/ \E r \in Resolutions, ok \in BOOLEAN : ResolutionPutDone(r, ok)
  \/ PendingClaimUpdate
  \/ PendingDeleteFolder
  \/ PendingRecordSave

NextImage == ClaimActions(FlowClaims) \/ ImageActions

SpecImage == Init /\ [][NextImage]_vars
VideoActions ==
  \/ \E u \in Users, c \in 1..FlowClaims, pr \in {"ok", "muxError", "saveError"} :
        createDirectUploadWithClaim(u, c, pr)
  \/ \E ty \in EventTypes, corr \in 0..MaxAssets, arg \in 0..MaxMuxId :
        MuxWebhookEvent(ty, corr, arg)

NextVideo == ClaimActions(FlowClaims) \/ VideoActions

SpecVideo == Init /\ [][NextVideo]_vars

\* the event stream over one claim of one user and its video asset
EventActions ==
  \/ createClaim(FlowClaims, "u1", "user_video")
  \/ \E pr \in {"ok", "saveError"} : createDirectUploadWithClaim("u1", 1, pr)
  \/ \E k \in Unparsable : ConsumeUnparsable(k)
  \/ \E ty \in EventTypes : ConsumeOtherTopic(ty)
  \/ \E ty \in EventTypes, corr \in 0..MaxAssets, arg \in 0..MaxMuxId :
        ConsumeMuxEvent(ty, corr, arg)

NextEvents == EventActions

SpecEvents == Init /\ [][NextEvents]_vars

\* image upload requests interleaving at their awaits
RaceActions ==
  \/ \E r \in RequestIds, c \in 1..FlowClaims, u \in Users :
        UploadRequestArrives(r, c, u)
  \/ \E r \in RequestIds : ValidateClaimRead(r)
  \/ \E r \in RequestIds : SetProcessingWrite(r)
  \/ \E r \in RequestIds : PipelineModerationFailure(r)

NextRace == ClaimActions(FlowClaims) \/ RaceActions

SpecRace == Init /\ [][NextRace]_vars

InitText ==
  /\ now = 0
  /\ claims = [c \in ClaimIds |-> NoClaim]
  /\ stats = [u \in Users |-> [p \in UploadProfileNames |-> NoStats]]
  /\ up = IdleUpload
  /\ blobs = {}
  /\ imageAssets = {}
  /\ assets = [a \in AssetIds |-> NoAsset]
  /\ muxJobs = 0
  /\ ev = IdleStream
  /\ rq = [r \in RequestIds |-> IdleRequest]
  /\ evh = [h \in HandlerIds |-> IdleHandler]
  /\ usc = [k \in CallIds |-> IdleUpdate]
  /\ tsu = [k \in CallIds |-> IdleTrack]
  /\ statDocs = <<>>
  /\ mi = IdleModeration
  /\ last = [op |-> "init", key |-> 0, arg |-> 0, res |-> "ok", rep |-> FALSE]
  /\ \E t \in Texts, kw \in BOOLEAN, llm \in BOOLEAN :
       mt = [IdleText EXCEPT !.text = t, !.keywordFilterEnabled = kw,
                             !.groqLLMEnabled = llm]

NextText == ModerateTextCall

SpecText == InitText /\ [][NextText]_vars

StatusRaceActions ==
  \/ \E k \in CallIds, c \in 1..FlowClaims : UpdateClaimRead(k, c, "uploaded")
  \/ \E k \in CallIds : UpdateClaimSave(k)
  \/ \E k \in CallIds : UpdateClaimTrack(k)

NextStatusRace == ClaimActions(FlowClaims) \/ StatusRaceActions

SpecStatusRace == Init /\ [][NextStatusRace]_vars

\* ready and errored events of the stream handled together
HandlerRaceActions ==
  \/ \E u \in Users, c \in 1..FlowClaims : createDirectUploadWithClaim(u, c, "ok")
  \/ \E h \in HandlerIds, ty \in {"video.asset.ready", "video.asset.errored"},
        corr \in 0..MaxAssets, arg \in 0..MaxMuxId :
        EventAssetUpdate(h, ty, corr, arg)
  \/ \E h \in HandlerIds : EventClaimUpdate(h)

NextHandlerRace == ClaimActions(FlowClaims) \/ HandlerRaceActions

SpecHandlerRace == Init /\ [][NextHandlerRace]_vars

InitTrack ==
  /\ now = 0
  /\ claims = [c \in ClaimIds |-> NoClaim]
  /\ stats = [u \in Users |-> [p \in UploadProfileNames |-> NoStats]]
  /\ up = IdleUpload
  /\ blobs = {}
  /\ imageAssets = {}
  /\ assets = [a \in AssetIds |-> NoAsset]
  /\ muxJobs = 0
  /\ mt = IdleText
  /\ ev = IdleStream
  /\ rq = [r \in RequestIds |-> IdleRequest]
  /\ evh = [h \in HandlerIds |-> IdleHandler]
  /\ usc = [k \in CallIds |-> IdleUpdate]
  /\ mi = IdleModeration
  /\ tsu = [k \in CallIds |-> IdleTrack]
  /\ last = [op |-> "init", key |-> 0, arg |-> 0, res |-> "ok", rep |-> FALSE]
  /\ \/ statDocs = <<>>
     \/ \E u \in Users, p \in UploadProfileNames :
          statDocs = <<[userId |-> u, profileName |-> p, uploadDates |-> <<0>>]>>

NextTrack ==
  \/ Tick
  \/ \E k \in CallIds, u \in Users, p \in UploadProfileNames : TrackFind(k, u, p)
  \/ \E k \in CallIds : TrackSave(k)

SpecTrack == InitTrack /\ [][NextTrack]_vars

InitModeration ==
  /\ now = 0
  /\ claims = [c \in ClaimIds |-> NoClaim]
  /\ stats = [u \in Users |-> [p \in UploadProfileNames |-> NoStats]]
  /\ up = IdleUpload
  /\ blobs = {}
  /\ imageAssets = {}
  /\ assets = [a \in AssetIds |-> NoAsset]
  /\ muxJobs = 0
  /\ mt = IdleText
  /\ ev = IdleStream
  /\ rq = [r \in RequestIds |-> IdleRequest]
  /\ evh = [h \in HandlerIds |-> IdleHandler]
  /\ usc = [k \in CallIds |-> IdleUpdate]
  /\ tsu = [k \in CallIds |-> IdleTrack]
  /\ statDocs = <<>>
  /\ last = [op |-> "init", key |-> 0, arg |-> 0, res |-> "ok", rep |-> FALSE]
  /\ \E ls \in LabelSeqsUpTo(MaxLabels), en \in BOOLEAN :
       mi = [IdleModeration EXCEPT !.labels = ls, !.enabled = en]

NextModeration == ModerateImageCall

SpecModeration == InitModeration /\ [][NextModeration]_vars

\* ================================================================ properties
UsageCount(st, userId, profileName, cutoff) ==
  Cardinality({i \in 1..Len(st[userId][profileName].uploadDates) :
                 st[userId][profileName].uploadDates[i] > cutoff})

\* C1: for a profile limited to RateLimitMaxUploads uploads per
\* RateLimitPeriodDays days, whenever that many usage timestamps of (user,
\* profile) lie strictly after now - RateLimitPeriodDays, createClaim(user,
\* profile) fails with Forbidden and stores no claim.
C1_QuotaRejectsClaim ==
  [][\A u \in Users, p \in RateLimitedProfiles :
       (/\ UsageCount(stats, u, p, now - RateLimitPeriodDays) >= RateLimitMaxUploads
        /\ createClaim(MaxClaims, u, p))
       => (last'.res = "Forbidden" /\ claims' = claims)]_vars

\* a claim request has just been refused for quota while a claim id was free
C1_Witness ==
  /\ last.op = "createClaim" /\ last.res = "Forbidden"
  /\ \E c \in ClaimIds : ~claims[c].exists
  /\ \E u \in Users, p \in RateLimitedProfiles :
       UsageCount(stats, u, p, now - RateLimitPeriodDays) >= RateLimitMaxUploads

TerminalSuccessStatuses == {"uploaded", "ready"}

OwnerUsage(st, cl, claimId) ==
  Len(st[cl[claimId].claimRequestorUserId][cl[claimId].uploadProfile].uploadDates)

\* C2: a run of updateClaimStatus calls with the same terminal success status
\* on a processing claim tracks usage exactly once: the first call adds one
\* timestamp to the stats of (requestor, profile), every repetition leaves
\* claim and stats as the first call left them.
C2_TrackedExactlyOnce ==
  [][(/\ last'.op = "updateClaimStatus" /\ last'.res = "ok"
      /\ last'.arg.status \in TerminalSuccessStatuses)
     => IF last'.rep
        THEN claims' = claims /\ stats' = stats
        ELSE claims[last'.key].status = "processing"
               => OwnerUsage(stats', claims, last'.key)
                    = OwnerUsage(stats, claims, last'.key) + 1]_vars

NonReusableStatuses == {"processing", "uploaded", "ready", "moderation_rejected"}

\* C3: a claim stored as processing, uploaded, ready or moderation_rejected
\* is refused by validateClaimForUpload with Forbidden, whatever its reason
\* and expiry; a validation that succeeded found the claim pending or failed.
C3_NoRevalidation ==
  /\ \A c \in ClaimIds :
       (claims[c].exists /\ claims[c].status \in NonReusableStatuses)
         => validateClaimForUpload(claims, now, c) = "Forbidden"
  /\ (last.op = "validateClaimForUpload" /\ last.res = "ok")
       => claims[last.key].status \in {"pending", "failed"}

\* a retried claim (retryable reason still stored, status processing again,
\* not expired) has just been refused
C3_Witness ==
  /\ last.op = "validateClaimForUpload" /\ last.res = "Forbidden"
  /\ last.key \in ClaimIds /\ claims[last.key].exists
  /\ claims[last.key].status = "processing"
  /\ claims[last.key].reason = "Content moderation failed"
  /\ now <= claims[last.key].expiresAt

ModerationRollbackDone ==
  up.result = "MethodNotAllowed" /\ up.pendClaim = "none" /\ ~up.pendDelete

C7_CreatedAfterReadyIgnored ==
  [][(/\ last'.op = "video.upload.created"
      /\ last'.key \in AssetIds
      /\ assets[last'.key].exists
      /\ assets[last'.key].status = "ready")
     => (assets' = assets /\ assets'[last'.key].status = "ready")]_vars

C7_Witness ==
  /\ last.op = "video.upload.created" /\ last.res = "dlq"
  /\ last.key \in AssetIds /\ assets[last.key].exists
  /\ assets[last.key].status = "ready"

\* C8: createDirectUploadWithClaim on a pending claim by a user other than
\* the requestor fails with Forbidden, leaves the claim pending and creates
\* neither a provider job nor an asset.
C8_ForeignUserLeavesClaimPending ==
  [][(/\ last'.op = "createDirectUploadWithClaim"
      /\ last'.arg = 2
      /\ claims[last'.key].status = "pending")
     => (/\ last'.res = "Forbidden"
         /\ claims'[last'.key].status = "pending"
         /\ assets' = assets
         /\ muxJobs' = muxJobs)]_vars

AspectViolatingUpload ==
  /\ up.pc # "idle"
  /\ getUploadProfile(up.profile).hasAspect
  /\ up.img[1] > 0 /\ up.img[2] > 0
  /\ Abs(up.img[1] * AspectDenom - AspectNum * up.img[2]) * 1000
       > AllowedDeviationPermille * AspectNum * up.img[2]

\* C9 as stated: an upload whose image violates the aspect ratio fails with
\* the validation error, and when it has failed no put and no classifier
\* request of the upload has been issued.
C9_NothingIssuedBeforeFailure ==
  (AspectViolatingUpload /\ up.result = "BadRequest")
    => /\ up.main = "err"
       /\ up.mod \in {"prep", "late"}
       /\ up.main \notin {"put", "done", "puterr"}
       /\ \A r \in Resolutions : up.res[r] \in {"proc", "cancelled"}

\* C9 amended: an upload whose image violates the aspect ratio never
\* succeeds and never reaches the moderation verdict; the put of its main
\* object is never issued and the object is never stored; when it fails with
\* the validation error, the main branch is the one that failed.
C9_AspectViolationNeverStored ==
  AspectViolatingUpload
    => /\ up.result \in {"none", "BadRequest", "Error"}
       /\ up.main \in {"meta", "err", "cancelled"}
       /\ [folder |-> up.folder, name |-> MainKey] \notin blobs
       /\ up.result = "BadRequest" => up.main = "err"

\* the 100 x 140 upload has failed with the validation error after the
\* classifier request and a resolution put had gone out
C9_Witness ==
  /\ AspectViolatingUpload /\ up.img = <<100, 140>>
  /\ up.result = "BadRequest" /\ up.main = "err"
  /\ up.mod = "ignored"
  /\ \E r \in Resolutions : up.res[r] \in {"put", "done"}

\* the tokens of a text after normalisation: each maximal run of
\* non-whitespace characters, without the non-alphanumeric characters at its
\* two ends, in lower case
NormalisedTokens(text) ==
  LET n == Len(text)
      leftClear(i) == \A k \in 1..(i - 1) :
                        (\A m \in k..(i - 1) : ~isWhitespace(text[m]))
                          => ~isAlphanumeric(text[k])
      rightClear(j) == \A k \in (j + 1)..n :
                         (\A m \in (j + 1)..k : ~isWhitespace(text[m]))
                           => ~isAlphanumeric(text[k])
      spans == {sp \in (1..n) \X (1..n) :
                  /\ sp[1] <= sp[2]
                  /\ isAlphanumeric(text[sp[1]]) /\ isAlphanumeric(text[sp[2]])
                  /\ \A k \in sp[1]..sp[2] : ~isWhitespace(text[k])
                  /\ leftClear(sp[1]) /\ rightClear(sp[2])}
  IN {[k \in 1..(sp[2] - sp[1] + 1) |-> lowerChar(text[sp[1] + k - 1])] : sp \in spans}

MatchedTokens(text) == NormalisedTokens(text) \cap profaneWords

ListedIn(message, token) ==
  \E i \in 1..(Len(message) - Len(token) + 1) :
    SubSeq(message, i, i + Len(token) - 1) = token

\* C10: with the keyword filter enabled, a text with at least one denylisted
\* token after normalisation is judged inappropriate, the message lists every
\* matched token, and no LLM call is made, with the LLM stage enabled or not.
C10_KeywordMatchDecides ==
  (mt.done /\ mt.keywordFilterEnabled /\ MatchedTokens(mt.text) # {})
    => /\ mt.result.isInappropriate
       /\ \A token \in MatchedTokens(mt.text) : ListedIn(mt.result.message, token)
       /\ mt.result.llmCalls = 0

\* a text with two different matched tokens, one of them written in upper
\* case, has been moderated with the LLM stage enabled
C10_Witness ==
  /\ mt.done /\ mt.keywordFilterEnabled /\ mt.groqLLMEnabled
  /\ Cardinality(MatchedTokens(mt.text)) = 2
  /\ \E i \in 1..Len(mt.text) : mt.text[i] = "A"

UnlimitedProfiles == AllProfileNames \ RateLimitedProfiles

\* C11: for a profile without a configured rate limit, and for an unknown
\* profile, hasReachedRateLimit is false for every user whatever the stored
\* usage history, and createClaim is never refused for quota.
C11_NoLimitNeverReached ==
  /\ \A u \in Users, p \in UnlimitedProfiles :
       ~hasReachedRateLimit(stats, now, u, p)
  /\ \A u \in Users, p \in UnlimitedProfiles :
       createClaimOutcome(stats, now, u, p) # "Forbidden"

\* a user holds as many recent timestamps for a profile without limit as the
\* limited profile would allow
C11_Witness ==
  \E u \in Users, p \in UnlimitedProfiles \cap UploadProfileNames :
    UsageCount(stats, u, p, now - RateLimitPeriodDays) >= RateLimitMaxUploads

\* C12: when exactly one of RateLimitMaxUploads stored timestamps is no
\* longer strictly after the cutoff, the limit is not reached,
\* getRateLimitInfo reports one remaining upload, and one more recorded
\* usage reaches the limit again.
C12_AgedOutFreesOneSlot ==
  \A u \in Users, p \in RateLimitedProfiles :
    UsageCount(stats, u, p, now - RateLimitPeriodDays) = RateLimitMaxUploads - 1
      => /\ ~hasReachedRateLimit(stats, now, u, p)
         /\ getRateLimitInfo(stats, now, u, p).kind = "limited"
         /\ getRateLimitInfo(stats, now, u, p).remainingUploads = 1
         /\ hasReachedRateLimit(trackSuccessfulUpload(stats, now, u, p), now, u, p)
         /\ getRateLimitInfo(trackSuccessfulUpload(stats, now, u, p), now, u, p)
              .remainingUploads = 0

\* the limit was reached, the oldest timestamp has aged out, and the report
\* has just been asked for
C12_Witness ==
  /\ last.op = "getRateLimitInfo" /\ last.res = "limited" /\ last.arg = 1
  /\ \E u \in Users, p \in RateLimitedProfiles :
       /\ Len(stats[u][p].uploadDates) = RateLimitMaxUploads
       /\ UsageCount(stats, u, p, now - RateLimitPeriodDays) = RateLimitMaxUploads - 1
       /\ UsageCount(stats, u, p, now - 1 - RateLimitPeriodDays) = RateLimitMaxUploads

StoredClaims == {c \in ClaimIds : claims[c].exists}

\* C13: whatever sequence of updateClaimStatus calls a claim receives, its
\* usage is recorded at most once: the stats never hold more timestamps than
\* there are claims, even when a claim is marked uploaded, then failed, then
\* uploaded again.
C13_UsageRecordedAtMostOnce ==
  TotalUploadDates(stats) <= Cardinality(StoredClaims)

\* C14: the first transition of a claim into a terminal success status,
\* uploaded or ready, appends exactly one timestamp to the stats of the
\* claim's requestor and profile; in the video flow this is the step of the
\* ready event.
C14_FirstSuccessCounted ==
  [][\A c \in ClaimIds :
       (/\ claims[c].exists
        /\ claims[c].status \notin TerminalSuccessStatuses
        /\ claims'[c].status \in TerminalSuccessStatuses)
       => OwnerUsage(stats', claims, c) = OwnerUsage(stats, claims, c) + 1]_vars

AllowListedReasons ==
  {"File processing error.", "Server error during processing.",
   "Content moderation failed"}

C16_ExpiredClaimRefused ==
  [][\A c \in ClaimIds :
       /\ (~claims[c].exists /\ claims'[c].exists)
            => (/\ claims'[c].status = "pending"
                /\ claims'[c].expiresAt = now + ClaimLifetimeDays)
       /\ (claims'[c].exists /\ now' > claims'[c].expiresAt)
            => validateClaimForUpload(claims', now', c) = "Forbidden"
       /\ (/\ claims[c].exists /\ claims[c].status # "processing"
           /\ claims'[c].status = "processing")
            => now <= claims[c].expiresAt]_vars

\* an upload with an expired claim that had failed retryably has just been
\* refused
C16_Witness ==
  /\ last.op = "uploadImage" /\ last.res = "Forbidden"
  /\ last.key \in ClaimIds /\ claims[last.key].exists
  /\ claims[last.key].status = "failed"
  /\ claims[last.key].reason \in AllowListedReasons
  /\ now > claims[last.key].expiresAt

\* C17: an image upload by a user other than the claim's requestor fails
\* with Forbidden and does nothing: claim, upload context (folder,
\* moderation, branches), stored objects and stats are unchanged.
C17_ForeignUserImageUploadRejected ==
  [][\A img \in Images, c \in ClaimIds, u \in Users :
       (/\ claims[c].exists
        /\ claims[c].claimRequestorUserId # u
        /\ uploadImageWithClaim(TRUE, img, c, u))
       => (/\ last'.res = "Forbidden"
           /\ claims' = claims /\ up' = up /\ blobs' = blobs
           /\ stats' = stats /\ imageAssets' = imageAssets)]_vars

\* an upload with an unexpired pending claim has just been refused: the
\* acting user was not the requestor
C17_Witness ==
  /\ last.op = "uploadImage" /\ last.res = "Forbidden"
  /\ last.key \in ClaimIds /\ claims[last.key].exists
  /\ claims[last.key].status = "pending"
  /\ now <= claims[last.key].expiresAt

\* C18: when an image upload has delivered a moderation rejection or an
\* infrastructure error to its caller, the stored claim status is already
\* failed.
C18_FailedBeforeErrorDelivered ==
  up.result \in {"MethodNotAllowed", "Error"}
    => claims[up.claim].status = "failed"

\* C19: when an image upload has returned its success result, the claim is
\* uploaded with the main object's URL and metadata and the image asset
\* record is stored.
C19_CommitBeforeSuccessReturned ==
  up.result = "ok"
    => /\ claims[up.claim].status = "uploaded"
       /\ claims[up.claim].fileUrl = S3Url(up.folder)
       /\ claims[up.claim].fileMetadata = ImageMeta(up.folder)
       /\ [claimId |-> up.claim, folder |-> up.folder] \in imageAssets

\* C20: when a fan-out branch has failed with a validation error or an
\* infrastructure error and no claim update of the upload is outstanding any
\* more, the claim is failed: no such failure leaves it in processing.
C20_BranchFailureFailsClaim ==
  (up.result \in {"BadRequest", "Error"} /\ up.pendClaim = "none")
    => claims[up.claim].status = "failed"

\* C21: an internal error raised during the moderation of an image upload
\* (image preparation failure, classifier call failure) never fails the
\* upload: when the moderation branch has met such an error the upload does
\* not end with an infrastructure error.
C21_ModerationErrorNeverFailsUpload ==
  up.mod = "err" => up.result # "Error"

ParsedKinds == {"mux", "other"}

\* C22: on the event stream, every message that fails parsing is sent to the
\* dead-letter queue exactly once, and every later message is still taken by
\* the subscription, a parsed event of the mux topic reaching its handler: a
\* parse failure never ends the subscription.
C22_ParseFailureKeepsStream ==
  \A i \in 1..Len(ev.log) :
    /\ ev.log[i].kind \in Unparsable => Len(ev.log[i].dlq) = 1
    /\ ev.log[i].taken
    /\ ev.log[i].kind = "mux" => ev.log[i].routed

\* the event types the handler dispatches on, and the rest
HandledEventTypes == {"video.upload.created", "video.asset.ready",
                      "video.asset.errored", "video.asset.deleted"}

DispatchFailed(entry) ==
  entry.taken /\ entry.kind \in ParsedKinds /\ ~entry.success

\* C23: for every parsed event the subscription took and whose dispatch
\* failed (handler returned false or threw, claim update threw, unhandled
\* type, topic without handler), exactly one message went to the dead-letter
\* queue, carrying an error text and the event type; the subscription stayed
\* active, so the message after it was taken as well; an event dispatched
\* with success sent nothing to the dead-letter queue.
C23_DispatchFailureEscalatedOnce ==
  \A i \in 1..Len(ev.log) :
    /\ DispatchFailed(ev.log[i])
         => /\ Len(ev.log[i].dlq) = 1
            /\ ev.log[i].dlq[1].type = ev.log[i].type
            /\ ev.log[i].dlq[1].error # NoValue
            /\ i < Len(ev.log) => ev.log[i + 1].taken
            /\ i = Len(ev.log) => ev.sub = "active"
    /\ (ev.log[i].taken /\ ev.log[i].kind = "mux" /\ ev.log[i].success)
         => ev.log[i].dlq = <<>>

\* an event of an unhandled type and a ready event that failed (no playback
\* id, or no asset yet) went to the dead-letter queue, and the ready event
\* after them was processed with success
C23_Witness ==
  /\ Len(ev.log) = 3
  /\ DispatchFailed(ev.log[1]) /\ ev.log[1].kind = "mux"
  /\ ev.log[1].type = "video.asset.updated"
  /\ DispatchFailed(ev.log[2]) /\ ev.log[2].type = "video.asset.ready"
  /\ ev.log[3].taken /\ ev.log[3].kind = "mux" /\ ev.log[3].success
  /\ ev.log[3].type = "video.asset.ready"

\* the event processed in this step finds no asset: no stored asset has the
\* correlation id (created, ready with a playback id, errored) or the
\* provider asset id (deleted) of the event
LookupFails(as, type, corr, arg) ==
  CASE type = "video.asset.deleted" ->
         {a \in AssetIds : as[a].exists /\ as[a].muxAssetId = arg} = {}
    [] type = "video.asset.ready" ->
         arg # 0 /\ {a \in AssetIds : as[a].exists /\ a = corr} = {}
    [] OTHER -> {a \in AssetIds : as[a].exists /\ a = corr} = {}

\* C24: a created, ready, errored or deleted event whose correlation id
\* matches no asset record is a no-op success: no asset and no claim is
\* modified and the event is not sent to the dead-letter queue.
C24_UnmatchedEventIsNoOp ==
  [][(/\ last'.op \in HandledEventTypes
      /\ LookupFails(assets, last'.op, last'.key, last'.arg))
     => (assets' = assets /\ claims' = claims /\ last'.res = "ok")]_vars

\* C25: processing an errored event for an asset linked to a claim marks the
\* asset errored with the provider's error message and sets the claim to
\* failed with that provider error message as the claim's reason.
C25_ErroredEventStoresProviderReason ==
  [][(/\ last'.op = "video.asset.errored"
      /\ last'.key \in AssetIds
      /\ assets[last'.key].exists
      /\ assets[last'.key].claimId \in ClaimIds)
     => (/\ assets'[last'.key].status = "errored"
         /\ assets'[last'.key].errorMessage = ProviderError(last'.arg)
         /\ claims'[assets[last'.key].claimId].status = "failed"
         /\ claims'[assets[last'.key].claimId].reason = ProviderError(last'.arg))]_vars

\* the assets a deleted event with provider asset id arg matches
MatchedByDeleted(as, arg) == {a \in AssetIds : as[a].exists /\ as[a].muxAssetId = arg}

\* C26: processing a deleted event sets the status of the asset it matches
\* (one of them, should several carry the provider asset id) to deleted,
\* changes nothing else of the assets, and leaves every claim, the claim
\* linked to that asset included, and all upload stats unchanged.
C26_DeletedEventLeavesClaims ==
  [][(last'.op = "video.asset.deleted" /\ last' # last)
     => (/\ claims' = claims
         /\ stats' = stats
         /\ IF MatchedByDeleted(assets, last'.arg) = {}
            THEN assets' = assets
            ELSE /\ last'.res = "ok"
                 /\ \E a \in MatchedByDeleted(assets, last'.arg) :
                      assets' = [assets EXCEPT ![a].status = "deleted"])]_vars

\* a deleted event has just been applied to an asset whose claim a ready
\* event had completed; the claim is still ready
C26_Witness ==
  /\ last.op = "video.asset.deleted" /\ last.res = "ok"
  /\ \E a \in AssetIds :
       /\ assets[a].exists /\ assets[a].status = "deleted"
       /\ assets[a].muxAssetId = last.arg /\ assets[a].playId # 0
       /\ assets[a].claimId \in ClaimIds
       /\ claims[assets[a].claimId].status = "ready"

\* the asset a successful createDirectUploadWithClaim stored for claim c
LinkedAssets(as, c) == {a \in AssetIds : as[a].exists /\ as[a].claimId = c}

\* C27: after a successful createDirectUploadWithClaim the claim is in
\* processing and an asset in a pre-ready state, linked to the claim and
\* carrying the correlation id, exists; from then on the claim leaves
\* processing only in the step of a ready or errored event for that
\* correlation id, which moves it to ready or to failed.
C27_ProcessingUntilTerminalEvent ==
  [][/\ (/\ last'.op = "createDirectUploadWithClaim" /\ last'.res = "ok"
         /\ last' # last)
          => (/\ claims'[last'.key].status = "processing"
              /\ \E a \in LinkedAssets(assets', last'.key) :
                   /\ ~assets[a].exists
                   /\ assets'[a].status = "preparing")
     /\ \A c \in ClaimIds :
          (/\ claims[c].status = "processing"
           /\ LinkedAssets(assets, c) # {}
           /\ claims'[c].status # "processing")
          => (/\ last'.op \in {"video.asset.ready", "video.asset.errored"}
              /\ last'.key \in LinkedAssets(assets, c)
              /\ claims'[c].status
                   = IF last'.op = "video.asset.ready" THEN "ready" ELSE "failed")]_vars

\* C28: when createDirectUploadWithClaim is rejected at the validation gate
\* (claim processing, uploaded, ready or moderation_rejected, expired, or
\* failed with a reason that is not retryable), the error surfaces to the
\* caller and the stored claims are exactly what they were before the call:
\* a completed claim is never overwritten to failed.
C28_RejectedUploadLeavesClaim ==
  [][(/\ last'.op = "createDirectUploadWithClaim"
      /\ last' # last
      /\ last'.key \in ClaimIds
      /\ claims[last'.key].exists
      /\ validateClaimForUpload(claims, now, last'.key) # "ok")
     => (last'.res = "Forbidden" /\ claims' = claims)]_vars

\* the edges of the claim state machine
StatusEdge(claim, status) ==
  \/ claim.status = "pending" /\ status = "processing"
  \/ /\ claim.status = "processing"
     /\ status \in {"uploaded", "ready", "failed", "moderation_rejected"}
  \/ /\ claim.status = "failed" /\ status = "processing"
     /\ claim.reason \in AllowListedReasons

\* C29: every change of a stored claim's status follows an edge of the state
\* machine (pending to processing; processing to uploaded/ready, failed or
\* moderation_rejected; failed to processing only with a retryable reason):
\* a claim in uploaded, ready or moderation_rejected never changes status
\* again and a pending claim never goes directly to a terminal state. A
\* direct upload that passed the validation gate and then failed at the
\* provider writes the status twice in one step, processing and then
\* failed, and is judged write by write.
C29_StatusChangesFollowEdges ==
  [][\A c \in ClaimIds :
       (claims[c].exists /\ claims'[c].status # claims[c].status)
         => \/ StatusEdge(claims[c], claims'[c].status)
            \/ /\ last'.op = "createDirectUploadWithClaim" /\ last'.key = c
               /\ last'.arg \in {StepCode("muxError"), StepCode("saveError")}
               /\ StatusEdge(claims[c], "processing")
               /\ claims'[c].status = "failed"]_vars

\* C30: of two upload requests for the same claim that interleave, at most
\* one passes the validation gate and runs the pipeline: no two requests
\* have both read the claim as usable and both set it to processing.
C30_AtMostOneRequestPassesGate ==
  \A r1, r2 \in RequestIds :
    (r1 # r2 /\ rq[r1].claim = rq[r2].claim)
      => ~(rq[r1].pc = "pipeline" /\ rq[r2].pc = "pipeline")

\* C35: in every reachable state the status of every stored video asset is
\* one of preparing, ready, errored, deleted (the values the VideoAsset
\* schema allows); no event handler writes another value.
C35_AssetStatusInSchemaEnum ==
  \A a \in AssetIds :
    assets[a].exists
      => assets[a].status \in {"preparing", "ready", "errored", "deleted"}

\* C36: when an image upload has failed at the join with a validation or an
\* infrastructure error and nothing of it is running any more (no put in
\* flight, no pending delete or claim update), no blob remains under the
\* upload's storage prefix.
C36_FailedUploadLeavesNoBlob ==
  (up.result \in {"BadRequest", "Error"} /\ Quiescent)
    => \A b \in blobs : b.folder # up.folder

\* C37: a claim that a video upload request leaves failed because the
\* creation of the external job or the save of the asset record failed
\* carries a reason from the retryable allow-list, so validateClaimForUpload
\* of the (still unexpired) claim returns it.
C37_InfrastructureFailureRetryable ==
  [][(/\ last' # last
      /\ last'.op = "createDirectUploadWithClaim"
      /\ last'.arg \in {StepCode("muxError"), StepCode("saveError")})
       => /\ claims'[last'.key].status = "failed"
          /\ claims'[last'.key].reason \in AllowListedReasons
          /\ validateClaimForUpload(claims', now', last'.key) = "ok"]_vars

\* the usage timestamps of (u, p) inside the window of d days that ends at t
InWindow(st, u, p, t, d) ==
  {i \in 1..Len(st[u][p].uploadDates) :
     st[u][p].uploadDates[i] > t - d /\ st[u][p].uploadDates[i] <= t}

\* C34: for a rate-limited profile, the number of usage timestamps recorded
\* for one (user, profile) inside any window of periodDays days never
\* exceeds maxUploads.
C34_WindowUsageWithinLimit ==
  \A u \in Users, p \in RateLimitedProfiles, t \in 0..MaxTime :
    Cardinality(InWindow(stats, u, p, t, getUploadProfile(p).periodDays))
      <= getUploadProfile(p).maxUploads

\* a label matches some configured category, by name or by parent name, whose
\* threshold its confidence reaches
ViolatesSomeCategory(label) ==
  \E i \in 1..Len(categories) :
    /\ categoryMatches(label, categories[i])
    /\ label.Confidence >= resolvedThreshold(categories[i])

\* a named label whose confidence reaches the threshold of the first
\* configured category it matches
ViolatesFirstCategory(label) ==
  /\ label.Name # ""
  /\ \E i \in 1..Len(categories) :
       /\ categoryMatches(label, categories[i])
       /\ \A j \in 1..(i - 1) : ~categoryMatches(label, categories[j])
       /\ label.Confidence >= resolvedThreshold(categories[i])

\* moderateImage has returned from the check of the labels
LabelsChecked ==
  /\ mi.done /\ mi.result.kind = "returned"
  /\ mi.result.message \in {"Image contains inappropriate content",
                            "Image passed content moderation checks"}

\* C38 as stated: when moderateImage has checked the classifier's labels,
\* the labels it reports as violations are exactly those that match a
\* configured category by name or by parent name with a confidence >= that
\* category's threshold, and it has returned inappropriate if there is
\* such a label.
C38_ViolationIffAnyCategoryReached ==
  LabelsChecked
    => /\ mi.result.violatingLabels = SelectSeq(mi.labels, ViolatesSomeCategory)
       /\ (\E i \in 1..Len(mi.labels) : ViolatesSomeCategory(mi.labels[i]))
            => mi.result.isInappropriate

\* C38 amended: when moderateImage has checked the classifier's labels, the
\* labels it reports as violations are exactly the named labels whose
\* confidence is >= the threshold of the first category, in configuration
\* order, that they match by name or by parent name, and it has returned
\* inappropriate if there is such a label.
C38_ViolationIffFirstCategoryReached ==
  LabelsChecked
    => /\ mi.result.violatingLabels = SelectSeq(mi.labels, ViolatesFirstCategory)
       /\ (\E i \in 1..Len(mi.labels) : ViolatesFirstCategory(mi.labels[i]))
            => mi.result.isInappropriate

\* moderateImage has returned inappropriate for two labels of which the
\* label check reported exactly one: the other matches a category by
\* parent name first, whose threshold it misses, and a later category by
\* name, whose threshold it reaches
C38_Witness ==
  /\ LabelsChecked /\ mi.result.isInappropriate
  /\ Len(mi.labels) = 2
  /\ Len(mi.result.violatingLabels) = 1
  /\ \E i \in 1..2 :
       /\ ~ViolatesFirstCategory(mi.labels[i])
       /\ ViolatesSomeCategory(mi.labels[i])
       /\ mi.labels[i].Name # ""

RECURSIVE SumDates(_, _)
SumDates(docs, S) ==
  IF S = {} THEN 0
  ELSE LET i == CHOOSE x \in S : TRUE IN
       Len(docs[i].uploadDates) + SumDates(docs, S \ {i})

\* the usage timestamps stored for (userId, profileName) in all documents
DatesOf(docs, userId, profileName) ==
  SumDates(docs, DocsOf(docs, userId, profileName))

\* C32: every completed trackSuccessfulUpload call for (user, profile),
\* under any interleaving of the calls' find and save steps and whether or
\* not a stats record existed before, leaves exactly one stats record for
\* (user, profile) and adds exactly one timestamp to what was stored: no
\* append is lost and no duplicate record is created.
C32_OneRecordEveryAppendKept ==
  [][\A k \in CallIds :
       (tsu[k].pc = "found" /\ tsu'[k].pc = "done")
         => /\ Cardinality(DocsOf(statDocs', tsu[k].userId, tsu[k].profileName)) = 1
            /\ DatesOf(statDocs', tsu[k].userId, tsu[k].profileName)
                 = DatesOf(statDocs, tsu[k].userId, tsu[k].profileName) + 1]_vars

\* the stored claims of (userId, profileName)
ClaimsOf(cl, userId, profileName) ==
  {c \in ClaimIds : /\ cl[c].exists /\ cl[c].claimRequestorUserId = userId
                    /\ cl[c].uploadProfile = profileName}

\* C31: when updateClaimStatus calls that set a claim to uploaded
\* interleave, usage is recorded once per claim: the usage timestamps of
\* (user, profile) never outnumber the user's claims for the profile.
C31_UsageRecordedOncePerClaim ==
  \A u \in Users, p \in UploadProfileNames :
    Len(stats[u][p].uploadDates) <= Cardinality(ClaimsOf(claims, u, p))

\* the reasons the ready and errored handlers store on a claim
EventReasons == {"Video ready for playback", "Video processing failed"}

\* C33: when no ready or errored handler is in flight, a video asset that
\* the events left ready or errored and the claim it is linked to agree (as
\* long as the claim's stored reason is the one an event wrote): the claim
\* is in terminal success iff the asset is ready, and failed iff the asset
\* is errored.
C33_ClaimAndAssetAgree ==
  \A a \in AssetIds :
    (/\ assets[a].exists /\ assets[a].claimId # 0
     /\ assets[a].status \in {"ready", "errored"}
     /\ claims[assets[a].claimId].reason \in EventReasons
     /\ \A h \in HandlerIds : evh[h].pc \in {"idle", "done"})
      => /\ claims[assets[a].claimId].status \in TerminalSuccessStatuses
              <=> assets[a].status = "ready"
         /\ claims[assets[a].claimId].status = "failed"
              <=> assets[a].status = "errored"
====
